---- MODULE Spec2Model ----
(***************************************************************************)
(* Flight controller of crazyflie_controller/scripts/controller_no_tf.py. *)
(*                                                                         *)
(* Controller.run is the main thread.  rospy runs the service handlers     *)
(* (_takeoff, _land) and the subscriber callbacks (_poseChanged,           *)
(* _tfChanged) on their own threads, so each of them may run between any   *)
(* two accesses of run to the shared fields state, goal and lastTf.  run   *)
(* is therefore cut into one step per access to a shared field; statements *)
(* that touch only run's locals (thrust, the PID objects, the message      *)
(* being built) are executed together with the access that precedes them.  *)
(* pc holds the source line run is about to execute.                       *)
(*                                                                         *)
(* Lengths are in hundredths of a unit: 0.05 is 5, 0.1 is 10, 0.5 is 50.   *)
(*                                                                         *)
(* The joystick mapper of crazyflie_demo/scripts/controller.py is another  *)
(* process; it is the variable joy and has its own specification, JoySpec. *)
(***************************************************************************)
EXTENDS Integers, Sequences, FiniteSets

VARIABLES
    state,      \* self.state
    goal,       \* self.goal.position.z of the Pose self.goal refers to
    lastTf,     \* self.lastTf: None or the latest TransformStamped
    thrust,     \* run's local thrust
    targetZ,    \* self.targetZ
    pidX, pidY, pidZ, pidYaw,   \* the four PID objects
    shutdown,   \* rospy.is_shutdown()
    pc,         \* the line run executes next
    polls,      \* iterations of the startup wait made so far (0 once left)
    pubNav,     \* what run published on cmd_vel in the current tick
    overridden, \* line 96 was executed in the current tick
    events,     \* callbacks and service calls delivered so far
    joy         \* the joystick mapper, crazyflie_demo/scripts/controller.py

vars == <<state, goal, lastTf, thrust, targetZ, pidX, pidY, pidZ, pidYaw,
          shutdown, pc, polls, pubNav, overridden, events, joy>>

\* ---- class constants, lines 14-17 ----
Idle == 0
Automatic == 1
TakingOff == 2
Landing == 3

\* ---- numbers of run ----
TakeoffHeight == 5          \* position.z > 0.05
TakeoffThrust == 50000      \* thrust > 50000
ThrustStep == 100           \* thrust += 100
LandingGoalZ == 5           \* self.goal.position.z = 0.05
LandedHeight == 10          \* position.z <= 0.1
TargetZ == 50               \* self.targetZ = 0.5
KiZ == 3000                 \* ki of pidZ

\* ---- bounds of the model ----
MaxPolls == 2               \* startup-wait iterations that are counted
MaxEvents == 4              \* callbacks and service calls delivered in a run

\* the measured heights the transform feed delivers: at and above each of
\* the two thresholds
Heights == {5, 10, 11}
\* the altitudes the goal feed delivers
GoalAlts == {0, 100}

None == <<>>
Unset == -1                 \* an attribute that was never assigned
Tf(z) == <<z>>
PositionZ(tf) == tf[1]

\* geometry_msgs Twist(): all six components zero
Twist == [linear |-> [x |-> 0, y |-> 0, z |-> 0],
          angular |-> [x |-> 0, y |-> 0, z |-> 0]]

\* ---- the PID class (pid.py), which is not part of the sources ----
\* integral is the accumulator as last written directly, as a fraction;
\* accumulated says that update() has added error*dt terms to it since;
\* has_previous says that previous_error holds an error of an earlier update.
\* The numeric value of an accumulator that update() has added to is not
\* tracked.
Zero == [num |-> 0, den |-> 1]
PID(min, max) == [min |-> min, max |-> max, integral |-> Zero,
                  accumulated |-> FALSE, has_previous |-> FALSE]
PIDReset(p) == [p EXCEPT !.integral = Zero, !.accumulated = FALSE,
                         !.has_previous = FALSE]
PIDUpdate(p) == [p EXCEPT !.integral = Zero, !.accumulated = TRUE,
                          !.has_previous = TRUE]
\* update() returns a value clamped to [min, max]
PIDOutputs(p) == {p.min, p.max}

\* ---- the joystick mapper, crazyflie_demo/scripts/controller.py ----
NumButtons == 5             \* buttons in a Joy message

\* sensor_msgs Joy.buttons: one 0 or 1 per button
Messages == [1..NumButtons -> {0, 1}]

\* Controller.__init__, lines 9-31: the land and takeoff proxies exist only
\* with use_controller; headlightEnable is the ROS parameter
\* ring/headlightEnable; called lists the services invoked while the last
\* message was handled.
JoyController(use_controller, headlight) ==
    [_buttons |-> None, _land |-> use_controller, _takeoff |-> use_controller,
     headlightEnable |-> headlight, called |-> <<>>]

\* line 35, for the button with python index i (a variant that ignores the
\* previous message precedes it)
Changed_always(j, data, i) == TRUE
Changed(j, data, i) == j._buttons = None \/ data[i + 1] # j._buttons[i + 1]

\* lines 35-47: one iteration of the for loop
JoyButton(j, data, i) ==
    IF ~Changed(j, data, i) \/ data[i + 1] # 1 THEN j
    ELSE IF i = 0 /\ j._land
      THEN [j EXCEPT !.called = Append(@, "land")]
    ELSE IF i = 1
      THEN [j EXCEPT !.called = Append(@, "emergency")]
    ELSE IF i = 2 /\ j._takeoff
      THEN [j EXCEPT !.called = Append(@, "takeoff")]
    ELSE IF i = 4
      THEN [j EXCEPT !.headlightEnable = ~@,
                     !.called = Append(@, "update_params")]
    ELSE j

\* line 34: for i in range(0, len(data.buttons))
RECURSIVE JoyLoop(_, _, _)
JoyLoop(j, data, i) ==
    IF i >= Len(data) THEN j ELSE JoyLoop(JoyButton(j, data, i), data, i + 1)

FlightInit ==
    /\ state = Idle
    /\ goal = 0
    /\ lastTf = None
    /\ thrust = 0
    /\ targetZ = Unset
    /\ pidX = PID(-20, 20)
    /\ pidY = PID(-20, 20)
    /\ pidZ = PID(10000, 60000)
    /\ pidYaw = PID(-200, 200)
    /\ shutdown = FALSE
    /\ pc = "wait"
    /\ polls = 0
    /\ pubNav = <<>>
    /\ overridden = FALSE
    /\ events = 0

\* the flight controller, with the joystick mapper left as constructed
Init == FlightInit /\ joy = JoyController(TRUE, FALSE)

\* a callback or service call can be delivered
Deliver ==
    /\ pc # "done"
    /\ events < MaxEvents
    /\ events' = events + 1
    /\ UNCHANGED joy

\* ---- callbacks and service handlers ----
_poseChanged(data) ==
    /\ Deliver
    /\ goal' = data
    /\ UNCHANGED <<state, lastTf, thrust, targetZ, pidX, pidY, pidZ, pidYaw,
                   shutdown, pc, polls, pubNav, overridden>>

_tfChanged(data) ==
    /\ Deliver
    /\ lastTf' = data
    /\ UNCHANGED <<state, goal, thrust, targetZ, pidX, pidY, pidZ, pidYaw,
                   shutdown, pc, polls, pubNav, overridden>>

_takeoff ==
    /\ Deliver
    /\ state' = TakingOff
    /\ UNCHANGED <<goal, lastTf, thrust, targetZ, pidX, pidY, pidZ, pidYaw,
                   shutdown, pc, polls, pubNav, overridden>>

_land ==
    /\ Deliver
    /\ state' = Landing
    /\ UNCHANGED <<goal, lastTf, thrust, targetZ, pidX, pidY, pidZ, pidYaw,
                   shutdown, pc, polls, pubNav, overridden>>

Shutdown ==
    /\ Deliver
    /\ ~shutdown
    /\ shutdown' = TRUE
    /\ UNCHANGED <<state, goal, lastTf, thrust, targetZ, pidX, pidY, pidZ,
                   pidYaw, pc, polls, pubNav, overridden>>

\* ---- Controller.run, lines 66-146 ----
\* line 81 (a variant with >= for the height and one without the thrust
\* test precede it)
LeavesGround_ge(position_z, thr) ==
    position_z >= TakeoffHeight \/ thr > TakeoffThrust
LeavesGround_heightOnly(position_z, thr) == position_z > TakeoffHeight
LeavesGround(position_z, thr) ==
    position_z > TakeoffHeight \/ thr > TakeoffThrust

\* line 100
Landed(position_z) == position_z <= LandedHeight

\* lines 89-90 (a variant that sets linear.x precedes it)
RampMsg_x(thr) == [Twist EXCEPT !.linear.x = thr]
RampMsg(thr) == [Twist EXCEPT !.linear.z = thr]

\* line 102
LandedMsg == Twist

\* line 143 (a variant that reuses the takeoff message precedes it)
IdleMsg_thrust == [Twist EXCEPT !.linear.z = thrust]
IdleMsg == Twist

\* lines 132-136
ControlMsg(ox, oy, oz, oyaw) ==
    [linear |-> [x |-> ox, y |-> oy, z |-> oz],
     angular |-> [x |-> 0, y |-> 0, z |-> oyaw]]

\* self.pubNav.publish(msg) at the given line
Publish(line, msg) == Append(pubNav, [line |-> line, msg |-> msg])

\* pidReset, lines 44-48: pidZ is reset twice and pidY is not reset
pidReset ==
    /\ pidX' = PIDReset(pidX)
    /\ pidY' = pidY
    /\ pidYaw' = PIDReset(pidYaw)

\* line 83, after pidReset has reset pidZ (a variant that resets after the
\* write precedes it)
SeedIntegral_thenReset(p, thr) ==
    PIDReset([p EXCEPT !.integral = [num |-> thr, den |-> KiZ]])
SeedIntegral(p, thr) == [PIDReset(p) EXCEPT !.integral = [num |-> thr, den |-> KiZ]]

\* rospy.is_shutdown(), lines 68 and 74 (a variant that never reports the
\* shutdown precedes it)
is_shutdown_never == FALSE
is_shutdown == shutdown

\* line 69 (a variant that breaks on the opposite test precedes it)
HaveSample_inverted == lastTf = None
HaveSample == lastTf # None

\* lines 68-72: the startup wait
Wait ==
    /\ pc = "wait"
    /\ UNCHANGED joy
    /\ IF is_shutdown \/ HaveSample
         THEN pc' = "l74" /\ polls' = 0
         ELSE polls < MaxPolls /\ polls' = polls + 1 /\ pc' = pc
    /\ UNCHANGED <<state, goal, lastTf, thrust, targetZ, pidX, pidY, pidZ,
                   pidYaw, shutdown, pubNav, overridden, events>>

\* line 74: the head of the tick loop
TickStart ==
    /\ pc = "l74"
    /\ UNCHANGED joy
    /\ IF is_shutdown
         THEN pc' = "done" /\ UNCHANGED <<pubNav, overridden>>
         ELSE pc' = "l76" /\ pubNav' = <<>> /\ overridden' = FALSE
    /\ UNCHANGED <<state, goal, lastTf, thrust, targetZ, pidX, pidY, pidZ,
                   pidYaw, shutdown, polls, events>>

\* line 76
CheckTakingOff ==
    /\ pc = "l76"
    /\ UNCHANGED joy
    /\ pc' = IF state = TakingOff THEN "l77" ELSE "l95"
    /\ UNCHANGED <<state, goal, lastTf, thrust, targetZ, pidX, pidY, pidZ,
                   pidYaw, shutdown, polls, pubNav, overridden, events>>

\* lines 77-81 and the else branch, lines 88-91
TakingOffStep ==
    /\ pc = "l77"
    /\ UNCHANGED joy
    /\ IF LeavesGround(PositionZ(lastTf), thrust)
         THEN /\ pc' = "l82"
              /\ UNCHANGED <<thrust, pubNav>>
         ELSE /\ thrust' = thrust + ThrustStep
              /\ pubNav' = Publish(91, RampMsg(thrust'))
              /\ pc' = "l95"
    /\ UNCHANGED <<state, goal, lastTf, targetZ, pidX, pidY, pidZ, pidYaw,
                   shutdown, polls, overridden, events>>

\* lines 82-86
ToAutomatic ==
    /\ pc = "l82"
    /\ UNCHANGED joy
    /\ pidReset
    /\ pidZ' = SeedIntegral(pidZ, thrust)
    /\ targetZ' = TargetZ
    /\ state' = Automatic
    /\ thrust' = 0
    /\ pc' = "l95"
    /\ UNCHANGED <<goal, lastTf, shutdown, polls, pubNav, overridden, events>>

\* line 95
CheckLanding ==
    /\ pc = "l95"
    /\ UNCHANGED joy
    /\ pc' = IF state = Landing THEN "l96" ELSE "l107"
    /\ UNCHANGED <<state, goal, lastTf, thrust, targetZ, pidX, pidY, pidZ,
                   pidYaw, shutdown, polls, pubNav, overridden, events>>

\* line 96
OverrideGoal ==
    /\ pc = "l96"
    /\ UNCHANGED joy
    /\ goal' = LandingGoalZ
    /\ overridden' = TRUE
    /\ pc' = "l97"
    /\ UNCHANGED <<state, lastTf, thrust, targetZ, pidX, pidY, pidZ, pidYaw,
                   shutdown, polls, pubNav, events>>

\* lines 97-100
LandingStep ==
    /\ pc = "l97"
    /\ UNCHANGED joy
    /\ pc' = IF Landed(PositionZ(lastTf)) THEN "l101" ELSE "l107"
    /\ UNCHANGED <<state, goal, lastTf, thrust, targetZ, pidX, pidY, pidZ,
                   pidYaw, shutdown, polls, pubNav, overridden, events>>

\* lines 101-103
ToIdle ==
    /\ pc = "l101"
    /\ UNCHANGED joy
    /\ state' = Idle
    /\ pubNav' = Publish(103, LandedMsg)
    /\ pc' = "l107"
    /\ UNCHANGED <<goal, lastTf, thrust, targetZ, pidX, pidY, pidZ, pidYaw,
                   shutdown, polls, overridden, events>>

\* line 107, left operand of the or
CheckAutomatic ==
    /\ pc = "l107"
    /\ UNCHANGED joy
    /\ pc' = IF state = Automatic THEN "l109" ELSE "l107b"
    /\ UNCHANGED <<state, goal, lastTf, thrust, targetZ, pidX, pidY, pidZ,
                   pidYaw, shutdown, polls, pubNav, overridden, events>>

\* line 107, right operand of the or
CheckLandingControl ==
    /\ pc = "l107b"
    /\ UNCHANGED joy
    /\ pc' = IF state = Landing THEN "l109" ELSE "l142"
    /\ UNCHANGED <<state, goal, lastTf, thrust, targetZ, pidX, pidY, pidZ,
                   pidYaw, shutdown, polls, pubNav, overridden, events>>

\* lines 109-138: the control computation; goal_z is goal_vec[2] of line 112
Control ==
    /\ pc = "l109"
    /\ UNCHANGED joy
    /\ pidX' = PIDUpdate(pidX)
    /\ pidY' = PIDUpdate(pidY)
    /\ pidZ' = PIDUpdate(pidZ)
    /\ pidYaw' = PIDUpdate(pidYaw)
    /\ \E ox \in PIDOutputs(pidX), oy \in PIDOutputs(pidY),
          oz \in PIDOutputs(pidZ), oyaw \in PIDOutputs(pidYaw) :
          pubNav' = Append(pubNav, [line |-> 138,
                                    msg |-> ControlMsg(ox, oy, oz, oyaw),
                                    goal_z |-> goal])
    /\ pc' = "l142"
    /\ UNCHANGED <<state, goal, lastTf, thrust, targetZ, shutdown, polls,
                   overridden, events>>

\* lines 142-144
CheckIdle ==
    /\ pc = "l142"
    /\ UNCHANGED joy
    /\ pubNav' = IF state = Idle THEN Publish(144, IdleMsg) ELSE pubNav
    /\ pc' = "l146"
    /\ UNCHANGED <<state, goal, lastTf, thrust, targetZ, pidX, pidY, pidZ,
                   pidYaw, shutdown, polls, overridden, events>>

\* line 146
Sleep ==
    /\ pc = "l146"
    /\ UNCHANGED joy
    /\ pc' = "l74"
    /\ UNCHANGED <<state, goal, lastTf, thrust, targetZ, pidX, pidY, pidZ,
                   pidYaw, shutdown, polls, pubNav, overridden, events>>

run ==
    \/ Wait
    \/ TickStart
    \/ CheckTakingOff
    \/ TakingOffStep
    \/ ToAutomatic
    \/ CheckLanding
    \/ OverrideGoal
    \/ LandingStep
    \/ ToIdle
    \/ CheckAutomatic
    \/ CheckLandingControl
    \/ Control
    \/ CheckIdle
    \/ Sleep

Next ==
    \/ \E data \in GoalAlts : _poseChanged(data)
    \/ \E z \in Heights : _tfChanged(Tf(z))
    \/ _takeoff
    \/ _land
    \/ Shutdown
    \/ run

Spec == Init /\ [][Next]_vars

\* ---- the joystick mapper as a process of its own ----
\* _joyChanged, lines 33-49
_joyChanged(data) ==
    /\ joy' = [JoyLoop([joy EXCEPT !.called = <<>>], data, 0)
                 EXCEPT !._buttons = data]
    /\ UNCHANGED <<state, goal, lastTf, thrust, targetZ, pidX, pidY, pidZ,
                   pidYaw, shutdown, pc, polls, pubNav, overridden, events>>

JoyInit ==
    /\ FlightInit
    /\ \E use_controller \in BOOLEAN, headlight \in BOOLEAN :
          joy = JoyController(use_controller, headlight)

JoyNext == \E data \in Messages : _joyChanged(data)

JoySpec == JoyInit /\ [][JoyNext]_vars

\* run is the main thread of the process: while it can take a step it
\* eventually takes one.
FairSpec == Spec /\ WF_vars(run)
\* ---- what a tick published ----
Lines(log) == {log[i].line : i \in 1..Len(log)}
IsZero(msg) ==
    /\ msg.linear.x = 0 /\ msg.linear.y = 0 /\ msg.linear.z = 0
    /\ msg.angular.x = 0 /\ msg.angular.y = 0 /\ msg.angular.z = 0
ZeroCount(log) == Cardinality({i \in 1..Len(log) : IsZero(log[i].msg)})
\* a step of run (the handlers leave pc alone; a wait iteration counts polls)
RunStep == pc' # pc \/ polls' # polls

\* C1: once a land request has put the machine in Landing, the state leaves
\* Landing only by a takeoff request or by the tick's Landing->Idle write
\* after the height test; run never overwrites Landing with Automatic.
C1_LandNeverReplaced ==
    [][(state = Landing /\ state' # Landing) =>
          \/ (~RunStep /\ state' = TakingOff)
          \/ (pc = "l101" /\ state' = Idle)]_vars

\* C2: the state changes only by a takeoff request (to TakingOff), a land
\* request (to Landing), or run taking TakingOff to Automatic or Landing to
\* Idle; in particular never from Idle to Automatic in one step.
C2_DefinedTriggersOnly ==
    [][state' # state =>
          \/ (~RunStep /\ state' \in {TakingOff, Landing})
          \/ (RunStep /\ state = TakingOff /\ state' = Automatic)
          \/ (RunStep /\ state = Landing /\ state' = Idle)]_vars

\* C3: in a tick that found TakingOff, run goes on to write Automatic if and
\* only if the measured height is > 0.05 or thrust > 50000; otherwise the
\* branch ends with the state as it was, and run writes Automatic nowhere
\* else.
C3_TakeoffTransitionIff ==
    [][/\ (pc = "l77" /\ RunStep) =>
             IF PositionZ(lastTf) > 5 \/ thrust > 50000
               THEN pc' = "l82" /\ state' = state
               ELSE pc' = "l95" /\ state' = state
       /\ (pc = "l82" /\ RunStep) => state' = Automatic
       /\ (RunStep /\ state' # state /\ state' = Automatic) => pc = "l82"]_vars

\* C3 witness: the transition is taken on the thrust alone, the measured
\* height still being 0.05.
C3_Witness ==
    pc = "l82" /\ state = TakingOff /\ PositionZ(lastTf) = 5 /\ thrust = 50100

\* C4: in a tick that found Landing, run writes Idle if and only if the
\* measured height is <= 0.1, and a tick that made this transition has
\* published one zero command and no command computed by the PID loops.
C4_LandingTransitionOneZero ==
    [][/\ (pc = "l97" /\ RunStep) =>
             (pc' = "l101") = (PositionZ(lastTf) <= 10)
       /\ (pc = "l101" /\ RunStep) => state' = Idle
       /\ (RunStep /\ state' # state /\ state' = Idle) => pc = "l101"
       /\ (pc' = "l146" /\ 103 \in Lines(pubNav')) =>
             /\ 138 \notin Lines(pubNav')
             /\ ZeroCount(pubNav') = 1]_vars

\* C5: a command computed in a tick that executed the Landing override was
\* computed with the altitude goal 0.05.
C5_LandingGoalForced ==
    \A i \in 1..Len(pubNav) :
        (overridden /\ pubNav[i].line = 138) => pubNav[i].goal_z = 5

\* C6: the state leaves Automatic only by a land request.
C6_AutomaticUntilLand ==
    [][(state = Automatic /\ state' # Automatic) =>
          (~RunStep /\ state' = Landing)]_vars

C8_OneCommandPerTick == pc = "l146" => Len(pubNav) = 1

\* C9: while no pose sample has been received run is in the startup wait
\* (or ending on shutdown) and has published nothing; a wait iteration is
\* made only without a sample, so with a sample and no shutdown the next
\* step of run leaves the wait for the tick loop, which then starts a tick.
C9_StartupWait ==
    /\ [](lastTf = None => (pc \in {"wait", "l74", "done"} /\ pubNav = <<>>))
    /\ [][/\ (pc = "wait" /\ lastTf # None /\ ~shutdown /\ RunStep) =>
                pc' = "l74"
          /\ (pc = "wait" /\ lastTf = None /\ ~shutdown /\ RunStep) =>
                (pc' = "wait" /\ polls' = polls + 1)
          /\ (pc = "l74" /\ ~shutdown /\ RunStep) => pc' = "l76"]_vars

\* C9 witness: the wait has made every counted iteration and there is still
\* no sample.
C9_Witness == pc = "wait" /\ lastTf = None /\ polls = MaxPolls /\ ~shutdown

\* C10: the step that writes Automatic leaves none of the four PID loops
\* with accumulated integral or a previous error (pidZ keeps only the seed).
Clean(p) == ~p.accumulated /\ ~p.has_previous
C10_AllFourReset ==
    [][(pc = "l82" /\ RunStep) =>
          Clean(pidX') /\ Clean(pidY') /\ Clean(pidZ') /\ Clean(pidYaw')]_vars
\* C11: the step that writes Automatic leaves pidZ.integral equal to
\* thrust / ki_z for the thrust held before the step (not the 0 it is reset
\* to), with nothing accumulated on it, and pidZ is then changed by nothing
\* but the next control computation or the next transition.
C11_SeedIsThrustOverKi ==
    [][/\ (pc = "l82" /\ RunStep) =>
             /\ pidZ'.integral.num * 3000 = thrust * pidZ'.integral.den
             /\ ~pidZ'.accumulated
             /\ thrust' = 0
       /\ (pidZ' # pidZ) => pc \in {"l82", "l109"}]_vars

\* C11 witness: the first Z update after a transition is about to start
\* from a non-zero seed.
C11_Witness ==
    /\ pc = "l109" /\ state = Automatic
    /\ pidZ.integral.num > 0 /\ pidZ.integral.den = 3000 /\ ~pidZ.accumulated
\* C12: the thrust ramp is 0 in every state other than TakingOff (so every
\* TakingOff phase starts from 0), however TakingOff was left.
C12_ThrustZeroOutsideTakingOff == state # TakingOff => thrust = 0
\* C13: the first control computation after a TakingOff->Automatic
\* transition (pidZ still holds the seed), made in Automatic, uses the
\* altitude goal 0.5.
C13_GoalAltitudeAfterTransition ==
    [][(/\ pc = "l109" /\ RunStep /\ state = Automatic
        /\ pidZ.integral.den = 3000 /\ ~pidZ.accumulated) =>
          pubNav'[Len(pubNav')].goal_z = 50]_vars
\* C14: a TakingOff branch that does not transition adds exactly 100 to the
\* thrust ramp and publishes exactly one command, whose linear z is the
\* ramp after the addition and whose other five components are zero, and
\* it updates no PID loop.
C14_RampTick ==
    [][(pc = "l77" /\ pc' = "l95") =>
          /\ thrust' = thrust + 100
          /\ Len(pubNav') = Len(pubNav) + 1
          /\ pubNav'[Len(pubNav')].line = 91
          /\ pubNav'[Len(pubNav')].msg =
                [linear |-> [x |-> 0, y |-> 0, z |-> thrust'],
                 angular |-> [x |-> 0, y |-> 0, z |-> 0]]
          /\ UNCHANGED <<pidX, pidY, pidZ, pidYaw>>]_vars

\* C14 witness: the second tick of a ramp has published its command.
C14_Witness ==
    /\ pc = "l95" /\ thrust = 200
    /\ pubNav = <<[line |-> 91, msg |-> RampMsg(200)]>>
\* C17: once run has left the startup wait for a tick, lastTf is not None
\* at any line (in particular where getTransform reads it: lines 77, 97 and
\* 109), and a sample once stored is only ever replaced by another sample.
C17_SampleAlwaysAvailable ==
    /\ [](pc \notin {"wait", "l74", "done"} => lastTf # None)
    /\ [][lastTf # None => lastTf' # None]_vars

\* C17 witness: getTransform is about to read the latest sample for the
\* control computation, every delivery of the run having been made.
C17_Witness == pc = "l109" /\ lastTf = Tf(11) /\ events = MaxEvents

\* C18: the thrust ramp is always a multiple of 100 between 0 and 50100,
\* and every command of the TakingOff branch has a linear z between 100 and
\* 50100.
C18_ThrustRange ==
    /\ thrust \in 0..50100
    /\ thrust % 100 = 0
    /\ \A i \in 1..Len(pubNav) :
          pubNav[i].line = 91 =>
             (pubNav[i].msg.linear.z >= 100 /\ pubNav[i].msg.linear.z <= 50100)

\* C18 witness: the ramp has published its largest command.
C18_Witness ==
    /\ thrust = 50100
    /\ \E i \in 1..Len(pubNav) :
          pubNav[i].line = 91 /\ pubNav[i].msg.linear.z = 50100
\* run's steps from pc to its end once shutdown is signalled, at most
Remaining ==
    CASE pc = "done" -> 0 [] pc = "l74" -> 1 [] pc = "l146" -> 2
      [] pc = "wait" -> 2 [] pc = "l142" -> 3 [] pc = "l109" -> 4
      [] pc = "l107b" -> 5 [] pc = "l107" -> 6 [] pc = "l101" -> 7
      [] pc = "l97" -> 8 [] pc = "l96" -> 9 [] pc = "l95" -> 10
      [] pc = "l82" -> 11 [] pc = "l77" -> 12 [] pc = "l76" -> 13

\* C16: once shutdown is signalled no tick is started, the startup wait and
\* the loop head both leave on their next step (the wait without entering
\* a tick body), and run terminates: until it has ended run can always
\* take a step, and each of its steps brings it closer to its end.
C16_ShutdownEndsRun ==
    /\ [][/\ shutdown => ~(pc # "l76" /\ pc' = "l76")
          /\ (shutdown /\ pc = "wait" /\ RunStep) => pc' = "l74"
          /\ (shutdown /\ pc = "l74" /\ RunStep) => pc' = "done"
          /\ (shutdown /\ RunStep) => Remaining' < Remaining]_vars
    /\ [](shutdown /\ lastTf = None => pubNav = <<>>)
    /\ []((shutdown /\ pc # "done") => ENABLED run)

\* C16 witness: run has ended on a shutdown signalled during the startup
\* wait, no sample having arrived.
C16_Witness == pc = "done" /\ shutdown /\ lastTf = None /\ pubNav = <<>>
\* C19: a TakingOff phase ends in Automatic unless a land request ends it:
\* the state leaves TakingOff only by run writing Automatic or by a land
\* request, every TakingOff branch either goes on to the transition or
\* raises the thrust ramp by 100, the ramp never passes 50100 (so the 502nd
\* tick at the latest transitions), requests leave the ramp alone, and
\* while the loop ticks (it has left the startup wait and is not shut down)
\* the phase does end.
C19_TakingOffEnds ==
    /\ [][/\ (state = TakingOff /\ state' # TakingOff) =>
                \/ (RunStep /\ state' = Automatic)
                \/ (~RunStep /\ state' = Landing)
          /\ (pc = "l77" /\ RunStep) =>
                (pc' = "l82" \/ thrust' = thrust + 100)
          /\ ~RunStep => thrust' = thrust
          /\ thrust' <= 50100]_vars
    /\ ((state = TakingOff /\ pc # "wait") ~> (state # TakingOff \/ shutdown))
\* C20: while a joystick message is handled, land (button 0), emergency
\* (button 1) and takeoff (button 2) are each called at most once, and only
\* if the button is 1 and this is the first message or the button differs
\* from the previous message (so a button held at 1 calls nothing), and
\* land and takeoff only if the controller services are enabled.
Calls(j, service) ==
    Cardinality({k \in 1..Len(j.called) : j.called[k] = service})
PressEdge(i) ==
    /\ joy'._buttons[i + 1] = 1
    /\ joy._buttons = None \/ joy._buttons[i + 1] # joy'._buttons[i + 1]
C20_PressEdgeOnly ==
    [][/\ Calls(joy', "land") <= 1
       /\ Calls(joy', "emergency") <= 1
       /\ Calls(joy', "takeoff") <= 1
       /\ Calls(joy', "land") = 1 => (PressEdge(0) /\ joy._land)
       /\ Calls(joy', "emergency") = 1 => PressEdge(1)
       /\ Calls(joy', "takeoff") = 1 => (PressEdge(2) /\ joy._takeoff)]_vars

\* C20 witness: land is enabled and button 0 is 1 in the last message, yet
\* handling it did not call land: the button was held from the message
\* before, which did call it.
C20_Witness ==
    /\ joy._land /\ joy._buttons # None
    /\ joy._buttons[1] = 1 /\ Calls(joy, "land") = 0
====
